---- MODULE Spec2Model ----
(***************************************************************************)
(* Prospect import / round-robin owner assignment / nightly rescoring of   *)
(* functions/index.js, as a state machine over the Firestore collections   *)
(* roles, routing, tenants/<t>/prospects (+ contacts, signals) and audit.  *)
(*                                                                         *)
(* Every await of importProspects, pickOwner and recalculateScores is a     *)
(* step of its own; the code between two awaits touches only the call's    *)
(* locals and is folded into the neighbouring step.                        *)
(*                                                                         *)
(* Values.  A JavaScript value that may be undefined/null is an optional:  *)
(* <<>> when missing, <<v>> when present.  Strings that the code edits     *)
(* character by character (domain, institutionName) are sequences of       *)
(* one-character strings.  Time is counted in ticks, DayTicks to the day   *)
(* (the source counts milliseconds); a stored timestamp of t ticks has     *)
(* Timestamp.seconds = 0 exactly when t = 0.  The server timestamps        *)
(* createdAt/updatedAt/at are not part of the model.                       *)
(***************************************************************************)
EXTENDS Integers, Sequences, FiniteSets, TLC

VARIABLES
    feed,       \* what clients may send: records to import and role requests,
                \* and how much of it (fixed during a behaviour)
    roles,      \* collection "roles": uid -> optional role document
    routing,    \* collection "routing": scope key -> RotationCursor document
    prospects,  \* tenants/<t>/prospects: <<tenant, id>> -> Prospect document
    contacts,   \* number of contact documents under each prospect path
    signals,    \* number of signal documents under each prospect path
    audit,      \* collection "audit": audit document -> number of copies
    pc,         \* importProspects call p: where it is
    caller,     \* request.auth?.uid of call p (optional)
    items,      \* the records of call p's body the loop has taken so far
    batch,      \* the WriteBatch of call p: sequence of staged writes
    count,      \* the local count of call p
    cur,        \* the parsed record call p is handling (optional)
    pool,       \* pickOwner's local pool of call p
    snap,       \* pickOwner's local snap of call p (optional cursor document)
    result,     \* what call p returned or threw
    rpc,        \* recalculateScores: where it is
    rsnap,      \* recalculateScores: the collection-group snapshot it read
    now,        \* the wall clock, in ticks
    used,       \* records taken, recalculate runs committed, role edits made
    assignLog   \* per scope key, the uids pickOwner returned, in order

vars == <<feed, roles, routing, prospects, contacts, signals, audit, pc, caller,
          items, batch, count, cur, pool, snap, result, rpc, rsnap, now, used,
          assignLog>>

importVars == <<pc, caller, items, batch, count, cur, pool, snap, result>>
storeVars == <<prospects, contacts, signals, audit>>
recalcVars == <<rpc, rsnap, now>>

-----------------------------------------------------------------------------
(* Bounds of the model *)

\* records parsed by all import calls together
MaxItems == 2
\* recalculateScores runs that commit
MaxRecalcs == 2
\* setUserRoleByEmail calls
MaxRoleEdits == 1
\* ticks to the day
DayTicks == 2
\* ticks the clock may advance
ClockSpan == 1
\* characters of a generated domain
MaxDomainLen == 3

Calls == {1, 2}

-----------------------------------------------------------------------------
(* Optional values and JavaScript truthiness *)

None == <<>>
Some(v) == <<v>>
IsSome(o) == Len(o) = 1
OrElse(o, d) == IF Len(o) = 1 THEN o[1] ELSE d
\* x || d for an optional string: undefined and "" are falsy
StrOr(o, d) == IF Len(o) = 1 /\ o[1] # "" THEN o[1] ELSE d
\* truthiness of an optional string
StrTruthy(o) == Len(o) = 1 /\ o[1] # ""

Put(f, k, v) == [x \in DOMAIN f \cup {k} |-> IF x = k THEN v ELSE f[x]]

\* Firestore set(..., {merge: true}) / update on top-level fields: the fields
\* of data overwrite, the other fields of the stored document stay.
MergeFields(old, data) ==
    [f \in DOMAIN old \cup DOMAIN data |-> IF f \in DOMAIN data THEN data[f] ELSE old[f]]

-----------------------------------------------------------------------------
(* Strings *)

IsSpace(c) == c = " "
LowerChar(c) == CASE c = "A" -> "a" [] c = "B" -> "b" [] OTHER -> c

\* String.prototype.toLowerCase on a character sequence
ToLowerCase(s) == [i \in 1..Len(s) |-> LowerChar(s[i])]

RECURSIVE TrimStart(_)
TrimStart(s) == IF s # <<>> /\ IsSpace(Head(s)) THEN TrimStart(Tail(s)) ELSE s

RECURSIVE TrimEnd(_)
TrimEnd(s) ==
    IF s # <<>> /\ IsSpace(s[Len(s)]) THEN TrimEnd(SubSeq(s, 1, Len(s) - 1)) ELSE s

\* String.prototype.trim
Trim(s) == TrimEnd(TrimStart(s))

\* s.replace(/\s+/g, '')
RemoveWhitespace(s) == SelectSeq(s, LAMBDA c : ~IsSpace(c))

\* toLowerCase on the product words clients send
LowerWord(w) ==
    CASE w = "Verity" -> "verity"
      [] w = "LUMINA" -> "lumina"
      [] w = "Unknown" -> "unknown"
      [] OTHER -> w

\* the whitespace inside the domain is kept
normalizeIdKeepingSpaces(domain, product) ==
    ToLowerCase(domain) \o <<"_", product>>

\* the domain is trimmed at both ends only
normalizeIdTrimmed(domain, product) ==
    ToLowerCase(Trim(domain)) \o <<"_", product>>

\* normalizeId: the domain without whitespace, lower-cased, "_", the product
normalizeId(domain, product) ==
    ToLowerCase(RemoveWhitespace(domain)) \o <<"_", product>>

-----------------------------------------------------------------------------
(* ProspectSchema.  Of the fields with the same schema and the same use in  *)
(* the staged write, one stands for all: region for timezone, lms, whyNow;  *)
(* lastContactedAt for nextStepDueAt.  wedges and currentTools are left     *)
(* out.  contacts and signals are the number of (well-formed) entries.      *)

ProductEnum == {"verity", "panorama", "lumina"}
StageEnum == {"P1", "nurture", "research", "hold"}
StatusEnum == {"new", "working", "replied", "qualified", "disqualified"}
PriorityEnum == {"A", "B", "C"}
ScoreMin == 0
ScoreMax == 100

\* { ...raw, product: (raw.product || "").toLowerCase() }
CaseFolded(raw) == [raw EXCEPT !.product = Some(LowerWord(StrOr(raw.product, "")))]

\* does ProspectSchema.parse accept the object
SchemaAccepts(r) ==
    /\ IsSome(r.tenantId) /\ r.tenantId[1] # ""
    /\ IsSome(r.institutionName) /\ Len(r.institutionName[1]) >= 2
    /\ IsSome(r.domain)
    /\ IsSome(r.product) /\ r.product[1] \in ProductEnum
    /\ IsSome(r.score) => (r.score[1] >= ScoreMin /\ r.score[1] <= ScoreMax)
    /\ IsSome(r.stage) => r.stage[1] \in StageEnum
    /\ IsSome(r.status) => r.status[1] \in StatusEnum
    /\ IsSome(r.priority) => r.priority[1] \in PriorityEnum

\* the value ProspectSchema.parse returns for an accepted object
SchemaOutput(r) ==
    [ tenantId |-> r.tenantId[1],
      institutionName |-> r.institutionName[1],
      domain |-> ToLowerCase(Trim(r.domain[1])),
      product |-> r.product[1],
      region |-> OrElse(r.region, ""),
      score |-> OrElse(r.score, 0),
      stage |-> OrElse(r.stage, "research"),
      ownerUid |-> r.ownerUid,
      ownerName |-> r.ownerName,
      status |-> r.status,
      priority |-> r.priority,
      lastContactedAt |-> r.lastContactedAt,
      nextStep |-> r.nextStep,
      contacts |-> r.contacts,
      signals |-> r.signals ]

\* parsed.lastContactedAt ? new Date(parsed.lastContactedAt) : null
\* (a number 0 is falsy, a date string never is)
ToDateOrNull(o) ==
    IF Len(o) = 1 /\ ~(o[1].kind = "num" /\ o[1].t = 0) THEN Some(o[1].t) ELSE None

\* the owner fields written are the record's own, not the ones resolved
ProspectDataRecordOwner(parsed, ownerUid, ownerName) ==
    [ tenantId |-> parsed.tenantId,
      institutionName |-> parsed.institutionName,
      domain |-> parsed.domain,
      product |-> parsed.product,
      region |-> parsed.region,
      score |-> parsed.score,
      stage |-> parsed.stage,
      ownerUid |-> parsed.ownerUid,
      ownerName |-> parsed.ownerName,
      status |-> StrOr(parsed.status, "new"),
      priority |-> StrOr(parsed.priority, "B"),
      lastContactedAt |-> ToDateOrNull(parsed.lastContactedAt),
      nextStep |-> StrOr(parsed.nextStep, "") ]

\* the document of batch.set(base, {...}, {merge: true})
ProspectData(parsed, ownerUid, ownerName) ==
    [ tenantId |-> parsed.tenantId,
      institutionName |-> parsed.institutionName,
      domain |-> parsed.domain,
      product |-> parsed.product,
      region |-> parsed.region,
      score |-> parsed.score,
      stage |-> parsed.stage,
      ownerUid |-> ownerUid,
      ownerName |-> ownerName,
      status |-> StrOr(parsed.status, "new"),
      priority |-> StrOr(parsed.priority, "B"),
      lastContactedAt |-> ToDateOrNull(parsed.lastContactedAt),
      nextStep |-> StrOr(parsed.nextStep, "") ]

\* the writes one record stages: the prospect, its contacts, its signals, the audit
RECURSIVE Repeat(_, _)
Repeat(w, n) == IF n <= 0 THEN <<>> ELSE <<w>> \o Repeat(w, n - 1)

\* the audit document is not staged
StagedWritesNoAudit(parsed, ownerUid, ownerName, by) ==
    LET id == normalizeId(parsed.domain, parsed.product)
        base == <<parsed.tenantId, id>>
    IN  <<[op |-> "prospect", path |-> base,
           data |-> ProspectData(parsed, ownerUid, ownerName)]>>
        \o Repeat([op |-> "contact", path |-> base], OrElse(parsed.contacts, 0))
        \o Repeat([op |-> "signal", path |-> base], OrElse(parsed.signals, 0))

StagedWrites(parsed, ownerUid, ownerName, by) ==
    LET id == normalizeId(parsed.domain, parsed.product)
        base == <<parsed.tenantId, id>>
    IN  <<[op |-> "prospect", path |-> base,
           data |-> ProspectData(parsed, ownerUid, ownerName)]>>
        \o Repeat([op |-> "contact", path |-> base], OrElse(parsed.contacts, 0))
        \o Repeat([op |-> "signal", path |-> base], OrElse(parsed.signals, 0))
        \o <<[op |-> "audit",
              data |-> [type |-> "import", tenantId |-> parsed.tenantId,
                        prospectId |-> id, by |-> by]]>>

-----------------------------------------------------------------------------
(* pickOwner *)

\* document ids of the roles collection, in the order a query returns them
UidOrder == <<"u1", "u2", "u3">>
Uids == {UidOrder[i] : i \in 1..Len(UidOrder)}

\* r.tenants[tenantId], "" when there is none
TenantRole(doc, tenantId) ==
    IF IsSome(doc.tenants) /\ tenantId \in DOMAIN doc.tenants[1]
    THEN doc.tenants[1][tenantId] ELSE ""

\* the filter of lines 54-55
Eligible(doc, tenantId, region) ==
    /\ IsSome(doc.tenants)
    /\ TenantRole(doc, tenantId) \in {"sdr", "admin"}
    /\ \/ ~IsSome(doc.regions)
       \/ region \in doc.regions[1]
       \/ "ALL" \in doc.regions[1]

\* q.docs.map(d => ({uid: d.id, ...d.data()})): the documents, in query order
RECURSIVE RoleDocs(_, _)
RoleDocs(rolesNow, i) ==
    IF i > Len(UidOrder) THEN <<>>
    ELSE (IF IsSome(rolesNow[UidOrder[i]])
          THEN <<[uid |-> UidOrder[i], doc |-> rolesNow[UidOrder[i]][1]]>>
          ELSE <<>>) \o RoleDocs(rolesNow, i + 1)

\* the pool of lines 53-55
ResolvePool(rolesNow, tenantId, region) ==
    SelectSeq(RoleDocs(rolesNow, 1), LAMBDA r : Eligible(r.doc, tenantId, region))

\* the text of an id, cut at the separator "__" where it contains one
Pieces(w) ==
    CASE w = "tA__east" -> <<"tA", "__", "east">>
      [] w = "east__ANY" -> <<"east", "__", "ANY">>
      [] OTHER -> <<w>>

\* `${tenantId}__${region || "ANY"}`: the three texts one after the other
RegionOrAny(region) == IF region # "" THEN region ELSE "ANY"
rrId(tenantId, region) == Pieces(tenantId) \o <<"__">> \o Pieces(RegionOrAny(region))

\* the index is not advanced
NextIndexStuck(snapDoc, poolLen) ==
    IF IsSome(snapDoc) THEN snapDoc[1].lastIndex % poolLen ELSE 0

\* idx of lines 60-61
NextIndex(snapDoc, poolLen) ==
    IF IsSome(snapDoc) THEN (snapDoc[1].lastIndex + 1) % poolLen ELSE 0

\* the count is set to 1, not incremented
CursorSetCountOnce(routingNow, key, idx, tenantId, region) ==
    Put(routingNow, key,
        [lastIndex |-> idx, count |-> 1,
         tenantId |-> tenantId, region |-> RegionOrAny(region)])

\* rrRef.set({lastIndex, count: increment(1), tenantId, region}, {merge: true})
CursorSet(routingNow, key, idx, tenantId, region) ==
    LET old == IF key \in DOMAIN routingNow THEN routingNow[key].count ELSE 0
    IN  Put(routingNow, key,
            [lastIndex |-> idx, count |-> old + 1,
             tenantId |-> tenantId, region |-> RegionOrAny(region)])

\* chosen.displayName || chosen.email || chosen.uid
OwnerNameOf(doc, uid) == StrOr(doc.displayName, StrOr(doc.email, uid))

-----------------------------------------------------------------------------
(* WriteBatch.commit: the staged writes applied in order, all of them *)

Count(f, k) == IF k \in DOMAIN f THEN f[k] ELSE 0

ApplyWrite(store, w) ==
    CASE w.op = "prospect" ->
           [store EXCEPT !.prospects =
               Put(@, w.path, IF w.path \in DOMAIN @ THEN MergeFields(@[w.path], w.data)
                              ELSE w.data)]
      [] w.op = "contact" ->
           [store EXCEPT !.contacts = Put(@, w.path, Count(@, w.path) + 1)]
      [] w.op = "signal" ->
           [store EXCEPT !.signals = Put(@, w.path, Count(@, w.path) + 1)]
      [] w.op = "audit" ->
           [store EXCEPT !.audit = Put(@, w.data, Count(@, w.data) + 1)]

RECURSIVE ApplyWrites(_, _)
ApplyWrites(store, ws) ==
    IF ws = <<>> THEN store ELSE ApplyWrites(ApplyWrite(store, Head(ws)), Tail(ws))

Store == [prospects |-> prospects, contacts |-> contacts,
          signals |-> signals, audit |-> audit]

\* only the first staged write is applied
CommittedFirstOnly(ws) == IF ws = <<>> THEN Store ELSE ApplyWrite(Store, Head(ws))

Committed(ws) == ApplyWrites(Store, ws)

-----------------------------------------------------------------------------
(* importProspects *)

Ok(n) == Some([ok |-> TRUE, count |-> n, error |-> ""])
Threw(e) == Some([ok |-> FALSE, count |-> 0, error |-> e])

\* only a missing caller id is refused
AuthenticatedIfPresent(who) == IsSome(who)

\* line 69: request.auth?.uid is truthy (neither undefined nor "")
Authenticated(who) == StrTruthy(who)

\* lines 68-84: the caller and the body are checked, the batch is opened
ImportCall(p, who, hasBody) ==
    /\ pc[p] = "idle"
    /\ caller' = [caller EXCEPT ![p] = who]
    /\ IF ~Authenticated(who)
       THEN /\ pc' = [pc EXCEPT ![p] = "failed"]
            /\ result' = [result EXCEPT ![p] = Threw("Auth required")]
       ELSE IF ~hasBody
       THEN /\ pc' = [pc EXCEPT ![p] = "failed"]
            /\ result' = [result EXCEPT ![p] = Threw("No data provided")]
       ELSE /\ pc' = [pc EXCEPT ![p] = "loop"]
            /\ result' = result
    /\ UNCHANGED <<feed, roles, routing, storeVars, items, batch, count, cur, pool,
                   snap, recalcVars, used, assignLog>>

\* lines 102-137 for the record in hand, with the owner found
Stage(p, parsed, ownerUid, ownerName) ==
    /\ batch' = [batch EXCEPT ![p] = @ \o StagedWrites(parsed, ownerUid, ownerName,
                                                       caller[p][1])]
    /\ count' = [count EXCEPT ![p] = @ + 1]
    /\ cur' = [cur EXCEPT ![p] = None]
    /\ pc' = [pc EXCEPT ![p] = "loop"]

\* lines 86-94: the next record of the body is parsed; with an owner of its own
\* it is staged, without one pickOwner is entered
ParseItem(p, raw) ==
    /\ pc[p] = "loop"
    /\ used.records < feed.budget.records
    /\ used' = [used EXCEPT !.records = @ + 1]
    /\ LET obj == CaseFolded(raw) IN
       IF ~SchemaAccepts(obj)
       THEN /\ pc' = [pc EXCEPT ![p] = "failed"]
            /\ result' = [result EXCEPT ![p] = Threw("validation")]
            /\ batch' = [batch EXCEPT ![p] = <<>>]
            /\ items' = [items EXCEPT ![p] = <<>>]
            /\ UNCHANGED <<count, cur>>
       ELSE LET parsed == SchemaOutput(obj) IN
            IF StrTruthy(parsed.ownerUid)
            THEN /\ Stage(p, parsed, Some(parsed.ownerUid[1]),
                          IF StrTruthy(parsed.ownerName) THEN parsed.ownerName ELSE None)
                 /\ items' = [items EXCEPT ![p] = Append(@, raw)]
                 /\ result' = result
            ELSE /\ pc' = [pc EXCEPT ![p] = "pool"]
                 /\ cur' = [cur EXCEPT ![p] = Some(parsed)]
                 /\ items' = [items EXCEPT ![p] = Append(@, raw)]
                 /\ UNCHANGED <<batch, count, result>>
    /\ UNCHANGED <<feed, roles, routing, storeVars, caller, pool, snap, recalcVars,
                   assignLog>>

\* lines 52-56: the roles are read and filtered; an empty pool returns null and
\* the record is staged with no owner (ownerName stays what the record said)
PickOwnerReadRoles(p) ==
    /\ pc[p] = "pool"
    /\ LET parsed == cur[p][1]
           found == ResolvePool(roles, parsed.tenantId, parsed.region)
       IN  IF found = <<>>
           THEN /\ Stage(p, parsed, None,
                         IF StrTruthy(parsed.ownerName) THEN parsed.ownerName ELSE None)
                /\ pool' = pool
           ELSE /\ pool' = [pool EXCEPT ![p] = found]
                /\ pc' = [pc EXCEPT ![p] = "cursor"]
                /\ UNCHANGED <<batch, count, cur>>
    /\ UNCHANGED <<feed, roles, routing, storeVars, caller, items, snap, result,
                   recalcVars, used, assignLog>>

\* lines 57-59: the cursor of the scope is read
PickOwnerReadCursor(p) ==
    /\ pc[p] = "cursor"
    /\ LET key == rrId(cur[p][1].tenantId, cur[p][1].region) IN
       snap' = [snap EXCEPT ![p] = IF key \in DOMAIN routing THEN Some(routing[key])
                                   ELSE None]
    /\ pc' = [pc EXCEPT ![p] = "write"]
    /\ UNCHANGED <<feed, roles, routing, storeVars, caller, items, batch, count, cur,
                   pool, result, recalcVars, used, assignLog>>

\* lines 60-63 and 96-99: the index is computed from the snapshot read before,
\* the cursor is written, pool[idx] is the owner of the record
PickOwnerWriteCursor(p) ==
    /\ pc[p] = "write"
    /\ LET parsed == cur[p][1]
           key == rrId(parsed.tenantId, parsed.region)
           idx == NextIndex(snap[p], Len(pool[p]))
           chosen == pool[p][idx + 1]
       IN  /\ routing' = CursorSet(routing, key, idx, parsed.tenantId, parsed.region)
           /\ assignLog' = Put(assignLog, key,
                               (IF key \in DOMAIN assignLog THEN assignLog[key] ELSE <<>>)
                               \o <<chosen.uid>>)
           /\ Stage(p, parsed, Some(chosen.uid),
                    Some(OwnerNameOf(chosen.doc, chosen.uid)))
    /\ pool' = [pool EXCEPT ![p] = <<>>]
    /\ snap' = [snap EXCEPT ![p] = None]
    /\ UNCHANGED <<feed, roles, storeVars, caller, items, result, recalcVars, used>>

\* lines 140-141: the body is exhausted and the batch commits
Commit(p) ==
    /\ pc[p] = "loop"
    /\ LET after == Committed(batch[p]) IN
       /\ prospects' = after.prospects
       /\ contacts' = after.contacts
       /\ signals' = after.signals
       /\ audit' = after.audit
    /\ pc' = [pc EXCEPT ![p] = "done"]
    /\ result' = [result EXCEPT ![p] = Ok(count[p])]
    /\ batch' = [batch EXCEPT ![p] = <<>>]
    /\ items' = [items EXCEPT ![p] = <<>>]
    /\ UNCHANGED <<feed, roles, routing, caller, count, cur, pool, snap, recalcVars,
                   used, assignLog>>

\* line 140: the storage rejects the batch; nothing of it is applied
CommitFail(p) ==
    /\ pc[p] = "loop"
    /\ pc' = [pc EXCEPT ![p] = "failed"]
    /\ result' = [result EXCEPT ![p] = Threw("commit")]
    /\ batch' = [batch EXCEPT ![p] = <<>>]
    /\ items' = [items EXCEPT ![p] = <<>>]
    /\ UNCHANGED <<feed, roles, routing, storeVars, caller, count, cur, pool,
                   snap, recalcVars, used, assignLog>>

-----------------------------------------------------------------------------
(* recalculateScores *)

DecayAfterDays == 3
DecayStep == 2
P1Threshold == 80
NurtureThreshold == 60

Max(a, b) == IF a >= b THEN a ELSE b

\* the clock starts DecayAfterDays days after the epoch and stops ClockSpan later
StartNow == DecayAfterDays * DayTicks
MaxNow == StartNow + ClockSpan

\* line 169: a stored Timestamp is read through its seconds; one whose seconds
\* are 0 is given to new Date() as the object it is, which is no date, and
\* every comparison with the NaN of line 171 is false
ReadableDate(stored) == IF IsSome(stored) /\ stored[1] # 0 THEN stored ELSE None

\* the decayed score is not floored at 0
DecayedScoreUnfloored(p, nowTicks) ==
    LET last == ReadableDate(p.lastContactedAt) IN
    IF IsSome(last) /\ (nowTicks - last[1]) \div DayTicks >= DecayAfterDays
    THEN p.score - DecayStep
    ELSE p.score

\* lines 168-173
DecayedScore(p, nowTicks) ==
    LET last == ReadableDate(p.lastContactedAt) IN
    IF IsSome(last) /\ (nowTicks - last[1]) \div DayTicks >= DecayAfterDays
    THEN Max(0, p.score - DecayStep)
    ELSE p.score

\* lines 175-178
StageOf(score) ==
    IF score >= P1Threshold THEN "P1"
    ELSE IF score >= NurtureThreshold THEN "nurture"
    ELSE "research"

\* line 180: the fields of batch.update for one document of the snapshot
Rescored(p, nowTicks) ==
    LET score == DecayedScore(p, nowTicks) IN [score |-> score, stage |-> StageOf(score)]

\* lines 162-164: every prospect of every tenant is read, then the clock
RecalcRead ==
    /\ rpc = "idle"
    /\ used.recalcs < feed.budget.recalcs
    /\ rsnap' = prospects
    /\ \E t \in now..MaxNow : now' = t
    /\ rpc' = "commit"
    /\ UNCHANGED <<feed, roles, routing, storeVars, importVars, used, assignLog>>

\* line 183: one update per document of the snapshot, committed together
RecalcCommit ==
    /\ rpc = "commit"
    /\ prospects' = [path \in DOMAIN prospects |->
                        IF path \in DOMAIN rsnap
                        THEN MergeFields(prospects[path], Rescored(rsnap[path], now))
                        ELSE prospects[path]]
    /\ rpc' = "idle"
    /\ rsnap' = <<>>
    /\ used' = [used EXCEPT !.recalcs = @ + 1]
    /\ UNCHANGED <<feed, roles, routing, contacts, signals, audit, importVars, now,
                   assignLog>>

\* line 183: the storage rejects the batch
RecalcCommitFail ==
    /\ rpc = "commit"
    /\ rpc' = "idle"
    /\ rsnap' = <<>>
    /\ UNCHANGED <<feed, roles, routing, storeVars, importVars, now, used, assignLog>>

-----------------------------------------------------------------------------
(* setUserRoleByEmail, for a caller that is a global admin and a request    *)
(* that names a user and a tenants map (every other call throws and changes *)
(* nothing).  Its reads and its one write are taken as one step.            *)

\* the e-mail address the request names for the user
EmailOf(uid) == CASE uid = "u1" -> "u1@edu" [] uid = "u2" -> "u2@edu" [] OTHER -> "u3@edu"

IsGlobalAdmin(uid) ==
    /\ uid \in Uids
    /\ IsSome(roles[uid])
    /\ TenantRole(roles[uid][1], "global") = "admin"

\* ref.set({tenants, regions: regions || [], email, displayName: ...}, {merge: true}):
\* the keys of the tenants map are merged into the stored map
RoleDocAfter(old, uid, req) ==
    LET oldTenants == IF IsSome(old) /\ IsSome(old[1].tenants) THEN old[1].tenants[1]
                      ELSE <<>>
    IN  [ tenants |-> Some(MergeFields(oldTenants, req.tenants)),
          regions |-> Some(OrElse(req.regions, {})),
          email |-> Some(EmailOf(uid)),
          displayName |-> Some(StrOr(req.displayName, EmailOf(uid))) ]

SetUserRoleByEmail(admin, uid, req) ==
    /\ used.edits < feed.budget.edits
    /\ IsGlobalAdmin(admin)
    /\ used' = [used EXCEPT !.edits = @ + 1]
    /\ roles' = [roles EXCEPT ![uid] = Some(RoleDocAfter(roles[uid], uid, req))]
    /\ UNCHANGED <<feed, routing, storeVars, importVars, recalcVars, assignLog>>

-----------------------------------------------------------------------------
(* Requests and initial stores *)

RawBase ==
    [ tenantId |-> Some("tA"), institutionName |-> Some(<<"Y", "U">>),
      domain |-> Some(<<"a", "b">>), product |-> Some("verity"), region |-> None,
      score |-> None, stage |-> None, ownerUid |-> None, ownerName |-> None,
      status |-> None, priority |-> None, lastContactedAt |-> None,
      nextStep |-> None, contacts |-> None, signals |-> None ]

\* the same prospect as RawBase, written differently and with every optional field
RawFull ==
    [RawBase EXCEPT !.domain = Some(<<"A", " ", "b", " ">>), !.product = Some("Verity"),
                    !.ownerUid = Some("u8"), !.ownerName = Some("Eight"),
                    !.score = Some(82), !.stage = Some("hold"),
                    !.status = Some("working"), !.priority = Some("A"),
                    !.lastContactedAt = Some([kind |-> "str", t |-> 1]),
                    !.nextStep = Some("call"), !.contacts = Some(1),
                    !.signals = Some(1)]

\* a prospect of another tenant that brings its owner
RawOwned ==
    [RawBase EXCEPT !.tenantId = Some("tB"), !.domain = Some(<<" ", "a", "B">>),
                    !.product = Some("LUMINA"), !.ownerUid = Some("u9"),
                    !.ownerName = Some("Nine"), !.score = Some(61),
                    !.lastContactedAt = Some([kind |-> "num", t |-> 1])]

\* a record the schema rejects
RawBadProduct == [RawBase EXCEPT !.product = Some("Unknown")]

\* a prospect of a region, last contacted at the epoch
RawEast ==
    [RawBase EXCEPT !.domain = Some(<<"b">>), !.region = Some("east"),
                    !.score = Some(1),
                    !.lastContactedAt = Some([kind |-> "str", t |-> 0])]

\* a prospect of nobody's tenant that names an owner but gives no owner id
RawOrphan ==
    [RawBase EXCEPT !.tenantId = Some("tB"), !.ownerName = Some("Nine")]

\* a low score with an owner of its own, last contacted half a day after the epoch
RawStale ==
    [RawBase EXCEPT !.domain = Some(<<"b">>), !.ownerUid = Some("u8"),
                    !.score = Some(3),
                    !.lastContactedAt = Some([kind |-> "str", t |-> 1])]

\* two prospects whose tenant and region, put together, read the same
RawSplitRegion ==
    [RawBase EXCEPT !.domain = Some(<<"b">>), !.region = Some("east__ANY")]
RawSplitTenant ==
    [RawBase EXCEPT !.tenantId = Some("tA__east"), !.domain = Some(<<"b">>)]

RoleDoc(tenants, regions) ==
    [tenants |-> Some(tenants), regions |-> regions, email |-> None, displayName |-> None]

\* u1 and u2 serve tenant tA; u1 is the global admin; nobody serves tenant tB
InitRoles ==
    [ u \in Uids |->
        CASE u = "u1" -> Some(RoleDoc([tA |-> "sdr", global |-> "admin"], None))
          [] u = "u2" -> Some([RoleDoc([tA |-> "admin", tB |-> "viewer"], Some({"ALL"}))
                               EXCEPT !.displayName = Some("Two")])
          [] OTHER -> None ]

\* requests to setUserRoleByEmail: u3 joins tenant tA with no regions given,
\* u3 joins it for region east, u2 leaves it
JoinPlain ==
    [uid |-> "u3", tenants |-> [tA |-> "sdr"], regions |-> None, displayName |-> None]
JoinEast ==
    [uid |-> "u3", tenants |-> [tA |-> "sdr"], regions |-> Some({"east"}),
     displayName |-> Some("Three")]
Leave ==
    [uid |-> "u2", tenants |-> [tA |-> "viewer"], regions |-> Some({"ALL"}),
     displayName |-> None]

\* u3 joins the tenant named tA__east
JoinSplit ==
    [uid |-> "u3", tenants |-> [tA__east |-> "sdr"], regions |-> Some({"ALL"}),
     displayName |-> None]

\* what clients send, by the part of the system under study
FeedImport ==
    [records |-> {RawBase, RawFull, RawOwned, RawBadProduct},
     roleRequests |-> {JoinEast},
     budget |-> [records |-> MaxItems, recalcs |-> MaxRecalcs - 1, edits |-> MaxRoleEdits]]
FeedAssign ==
    [records |-> {RawBase, RawEast, RawOwned, RawOrphan},
     roleRequests |-> {JoinPlain, JoinEast, Leave},
     budget |-> [records |-> MaxItems, recalcs |-> MaxRecalcs - 1, edits |-> MaxRoleEdits]]
FeedScore ==
    [records |-> {RawFull, RawOwned, RawStale, RawEast},
     roleRequests |-> {Leave},
     budget |-> [records |-> MaxItems, recalcs |-> MaxRecalcs, edits |-> MaxRoleEdits]]

FeedScope ==
    [records |-> {RawBase, RawOwned, RawSplitRegion, RawSplitTenant},
     roleRequests |-> {JoinSplit},
     budget |-> [records |-> MaxItems, recalcs |-> 0, edits |-> MaxRoleEdits]]

CallerOf(p) == IF p = 1 THEN "c1" ELSE "c2"
\* request.auth?.uid of a call: undefined, empty, or the caller's id
AuthOf(p) == {None, Some(""), Some(CallerOf(p))}

InitWith(records, rolesAtStart) ==
    /\ feed = records
    /\ roles = rolesAtStart
    /\ routing = <<>>
    /\ prospects = <<>>
    /\ contacts = <<>>
    /\ signals = <<>>
    /\ audit = <<>>
    /\ pc = [p \in Calls |-> "idle"]
    /\ caller = [p \in Calls |-> None]
    /\ items = [p \in Calls |-> <<>>]
    /\ batch = [p \in Calls |-> <<>>]
    /\ count = [p \in Calls |-> 0]
    /\ cur = [p \in Calls |-> None]
    /\ pool = [p \in Calls |-> <<>>]
    /\ snap = [p \in Calls |-> None]
    /\ result = [p \in Calls |-> None]
    /\ rpc = "idle"
    /\ rsnap = <<>>
    /\ now = StartNow
    /\ used = [records |-> 0, recalcs |-> 0, edits |-> 0]
    /\ assignLog = <<>>

Init == InitWith(FeedImport, InitRoles)
InitAssign == InitWith(FeedAssign, InitRoles)
InitScore == InitWith(FeedScore, InitRoles)

Next ==
    \/ \E p \in Calls : \E who \in AuthOf(p) : \E hasBody \in BOOLEAN :
          ImportCall(p, who, hasBody)
    \/ \E p \in Calls : \E raw \in feed.records : ParseItem(p, raw)
    \/ \E p \in Calls : PickOwnerReadRoles(p)
    \/ \E p \in Calls : PickOwnerReadCursor(p)
    \/ \E p \in Calls : PickOwnerWriteCursor(p)
    \/ \E p \in Calls : Commit(p)
    \/ \E p \in Calls : CommitFail(p)
    \/ RecalcRead
    \/ RecalcCommit
    \/ RecalcCommitFail
    \/ \E admin \in Uids : \E req \in feed.roleRequests : SetUserRoleByEmail(admin, req.uid, req)

Spec == Init /\ [][Next]_vars
SpecAssign == InitAssign /\ [][Next]_vars
SpecScore == InitScore /\ [][Next]_vars

-----------------------------------------------------------------------------
(* One import call at a time and no role edits: the setting of the          *)
(* round-robin fairness contract.                                           *)

RolesOfThree ==
    [InitRoles EXCEPT !["u3"] = Some(RoleDoc([tA |-> "sdr"], Some({"east", "ALL"})))]
RolesOfOne == [InitRoles EXCEPT !["u2"] = None]

FeedSeq ==
    [records |-> {RawBase, RawEast, RawOwned, RawOrphan},
     roleRequests |-> {},
     budget |-> [records |-> MaxItems + 2, recalcs |-> 0, edits |-> 0]]

InitSeq == \E r \in {InitRoles, RolesOfThree, RolesOfOne} : InitWith(FeedSeq, r)

Alone(p) == \A q \in Calls \ {p} : pc[q] \in {"idle", "done", "failed"}

NextSeq ==
    \/ \E p \in Calls : \E who \in AuthOf(p) : \E hasBody \in BOOLEAN :
          Alone(p) /\ ImportCall(p, who, hasBody)
    \/ \E p \in Calls : \E raw \in feed.records : Alone(p) /\ ParseItem(p, raw)
    \/ \E p \in Calls : Alone(p) /\ PickOwnerReadRoles(p)
    \/ \E p \in Calls : Alone(p) /\ PickOwnerReadCursor(p)
    \/ \E p \in Calls : Alone(p) /\ PickOwnerWriteCursor(p)
    \/ \E p \in Calls : Alone(p) /\ Commit(p)
    \/ \E p \in Calls : Alone(p) /\ CommitFail(p)

SpecSeq == InitSeq /\ [][NextSeq]_vars

-----------------------------------------------------------------------------
(* Imports and role edits without the nightly job, which writes score and   *)
(* stage only: the setting of the owner-assignment contracts.               *)

NextRoute ==
    \/ \E p \in Calls : \E who \in AuthOf(p) : \E hasBody \in BOOLEAN :
          ImportCall(p, who, hasBody)
    \/ \E p \in Calls : \E raw \in feed.records : ParseItem(p, raw)
    \/ \E p \in Calls : PickOwnerReadRoles(p)
    \/ \E p \in Calls : PickOwnerReadCursor(p)
    \/ \E p \in Calls : PickOwnerWriteCursor(p)
    \/ \E p \in Calls : Commit(p)
    \/ \E p \in Calls : CommitFail(p)
    \/ \E admin \in Uids : \E req \in feed.roleRequests : SetUserRoleByEmail(admin, req.uid, req)

SpecRoute == InitAssign /\ [][NextRoute]_vars

InitScope == InitWith(FeedScope, InitRoles)
SpecScope == InitScope /\ [][NextRoute]_vars

-----------------------------------------------------------------------------
(* Identity derivation on generated input: two records whose domains are   *)
(* the same text up to whitespace and letter case, with the product in any *)
(* spelling, each bringing its owner, imported by authenticated calls.     *)

DomainChars == {"a", "A", " "}
RECURSIVE DomainsOfLen(_)
DomainsOfLen(n) ==
    IF n = 0 THEN {<<>>}
    ELSE {Append(d, c) : d \in DomainsOfLen(n - 1), c \in DomainChars}
Domains == UNION {DomainsOfLen(n) : n \in 0..MaxDomainLen}
ProductWords == {"verity", "Verity"}

RawOf(d, w) ==
    [RawBase EXCEPT !.domain = Some(d), !.product = Some(w), !.ownerUid = Some("u8")]

InitNorm ==
    \E d1, d2 \in Domains : \E w \in ProductWords :
        /\ ToLowerCase(RemoveWhitespace(d1)) = ToLowerCase(RemoveWhitespace(d2))
        /\ InitWith([records |-> {RawOf(d1, "verity"), RawOf(d2, w)},
                     roleRequests |-> {},
                     budget |-> [records |-> Cardinality(Calls), recalcs |-> 0,
                                 edits |-> 0]],
                    InitRoles)

NextNorm ==
    \/ \E p \in Calls : ImportCall(p, Some(CallerOf(p)), TRUE)
    \/ \E p \in Calls : \E raw \in feed.records : ParseItem(p, raw)
    \/ \E p \in Calls : Commit(p)

SpecNorm == InitNorm /\ [][NextNorm]_vars

-----------------------------------------------------------------------------
(* Properties *)

\* the scope of a cursor key, and the pool the roles give it now
RegionOfKey(k) == IF k[3] = "ANY" THEN "" ELSE k[3]
PoolOfKey(k) == ResolvePool(roles, k[1], RegionOfKey(k))
PoolUids(k) == {PoolOfKey(k)[i].uid : i \in 1..Len(PoolOfKey(k))}

\* C1: with one caller at a time and an unchanging pool of N members, the
\* owners pickOwner returns for a scope start at pool[0], follow the pool
\* order, show every member exactly once in any N consecutive calls, and the
\* call after those N returns the member the first of them returned.
RoundRobinFair ==
    \A k \in DOMAIN assignLog :
        LET log == assignLog[k]
            members == PoolOfKey(k)
            N == Len(members)
        IN  /\ N > 0
            /\ log[1] = members[1].uid
            /\ \A i \in 1..Len(log) :
                  /\ \E j \in 1..N : log[i] = members[j].uid
                  /\ i + 1 <= Len(log) =>
                        \E j \in 1..N : /\ log[i] = members[j].uid
                                        /\ log[i + 1] = members[(j % N) + 1].uid
                  /\ i + N - 1 <= Len(log) =>
                        /\ {log[j] : j \in i..(i + N - 1)} = PoolUids(k)
                        /\ \A a, b \in i..(i + N - 1) : log[a] = log[b] => a = b
                  /\ i + N <= Len(log) => log[i + N] = log[i]

\* C1 witness: a scope whose pool of two or more has been gone round once and
\* whose next call has been made.
RoundRobinWrapped ==
    \E k \in DOMAIN assignLog :
        /\ Len(PoolOfKey(k)) >= 2
        /\ Len(assignLog[k]) > Len(PoolOfKey(k))

\* C2: no two import calls of one scope hold the same cursor snapshot for the
\* same pool of two or more members while both are about to write the cursor.
CursorReadModifyWriteAtomic ==
    \A p, q \in Calls :
        (/\ p # q
         /\ pc[p] = "write" /\ pc[q] = "write"
         /\ rrId(cur[p][1].tenantId, cur[p][1].region)
              = rrId(cur[q][1].tenantId, cur[q][1].region)
         /\ pool[p] = pool[q] /\ Len(pool[p]) >= 2)
        => snap[p] # snap[q]

\* every persisted collection the import pipeline writes is as it was at the start
NothingStored ==
    /\ DOMAIN routing = {}
    /\ DOMAIN prospects = {}
    /\ DOMAIN contacts = {}
    /\ DOMAIN signals = {}
    /\ DOMAIN audit = {}

FailedWith(p, e) == pc[p] = "failed" /\ result[p] = Threw(e)

\* C3: when the only import calls made so far failed schema validation, no
\* persisted collection (prospects, contacts, signals, audit, rotation
\* cursors) has been written.
ValidationFailureWritesNothing ==
    (/\ \E p \in Calls : FailedWith(p, "validation")
     /\ \A p \in Calls : pc[p] = "idle" \/ FailedWith(p, "validation"))
    => NothingStored

\* the steps in which call p's commit succeeds / is rejected
CommitStep(p) == pc[p] = "loop" /\ pc'[p] = "done"
CommitFailStep(p) == pc[p] = "loop" /\ pc'[p] = "failed" /\ result'[p] = Threw("commit")
\* the step in which a recalculate run commits
RecalcCommitStep == rpc = "commit" /\ used'.recalcs = used.recalcs + 1

\* how many writes of a kind call p has staged for a path / with a document
StagedFor(p, kind, path) ==
    Cardinality({i \in 1..Len(batch[p]) :
                    batch[p][i].op = kind /\ batch[p][i].path = path})
StagedAudits(p, doc) ==
    Cardinality({i \in 1..Len(batch[p]) :
                    batch[p][i].op = "audit" /\ batch[p][i].data = doc})
StagedPaths(p) == {batch[p][i].path : i \in {j \in 1..Len(batch[p]) : batch[p][j].op # "audit"}}
StagedAuditDocs(p) ==
    {batch[p][i].data : i \in {j \in 1..Len(batch[p]) : batch[p][j].op = "audit"}}

\* C4: a rejected commit leaves prospects, contacts, signals and audit as they
\* were; a successful commit shows every staged write at once (each staged
\* prospect exists, each path has gained its staged contacts and signals, each
\* audit document its staged copies, nothing else changed); and no other step
\* than a commit changes those collections, so no part of a batch is ever seen
\* alone.
CommitAllOrNothing ==
    [][ /\ \A p \in Calls : CommitFailStep(p) => UNCHANGED storeVars
        /\ \A p \in Calls : CommitStep(p) =>
              /\ DOMAIN prospects' = DOMAIN prospects
                                     \cup {path \in StagedPaths(p) : StagedFor(p, "prospect", path) > 0}
              /\ \A path \in DOMAIN prospects \ StagedPaths(p) :
                    prospects'[path] = prospects[path]
              /\ \A path \in StagedPaths(p) \cup DOMAIN contacts' \cup DOMAIN signals' :
                    /\ Count(contacts', path) = Count(contacts, path) + StagedFor(p, "contact", path)
                    /\ Count(signals', path) = Count(signals, path) + StagedFor(p, "signal", path)
              /\ \A doc \in StagedAuditDocs(p) \cup DOMAIN audit' :
                    Count(audit', doc) = Count(audit, doc) + StagedAudits(p, doc)
        /\ storeVars' # storeVars => (RecalcCommitStep \/ \E p \in Calls : CommitStep(p))
      ]_vars

\* C4 witness: one call's commit was rejected after it staged a record, the
\* other call committed a record with its contact, its signal and its audit
\* document.
CommitBothWays ==
    \E p, q \in Calls :
        /\ FailedWith(p, "commit") /\ count[p] >= 1
        /\ pc[q] = "done" /\ result[q] = Ok(1)
        /\ \E path \in DOMAIN prospects :
              /\ Count(contacts, path) >= 1
              /\ Count(signals, path) >= 1
              /\ \E a \in DOMAIN audit : <<a.tenantId, a.prospectId>> = path

\* C5: when the only import calls made so far had their commit rejected, every
\* persisted collection, the rotation cursors included, is as it was before.
RejectedCommitLeavesNoTrace ==
    (/\ \E p \in Calls : FailedWith(p, "commit")
     /\ \A p \in Calls : pc[p] = "idle" \/ FailedWith(p, "commit"))
    => NothingStored

\* the path and the audit document the pipeline derives for an accepted record
ItemParsed(raw) == SchemaOutput(CaseFolded(raw))
ItemPath(raw) ==
    <<ItemParsed(raw).tenantId, normalizeId(ItemParsed(raw).domain, ItemParsed(raw).product)>>
ItemAudit(raw, by) ==
    [type |-> "import", tenantId |-> ItemPath(raw)[1], prospectId |-> ItemPath(raw)[2],
     by |-> by]

RECURSIVE Total(_, _)
Total(f, keys) ==
    IF keys = {} THEN 0
    ELSE LET k == CHOOSE x \in keys : TRUE IN f[k] + Total(f, keys \ {k})

AuditsOf(path) ==
    Total(audit, {a \in DOMAIN audit : a.tenantId = path[1] /\ a.prospectId = path[2]})

\* C6, in every state: each audit document is an import of a prospect that
\* exists in its tenant, and each stored prospect has an audit document.
AuditPaired ==
    /\ \A a \in DOMAIN audit :
          a.type = "import" /\ <<a.tenantId, a.prospectId>> \in DOMAIN prospects
    /\ \A path \in DOMAIN prospects : AuditsOf(path) >= 1

\* C6: a committing import call of k records returns count k and adds, in the
\* step that writes its prospects, exactly k audit documents, one per record,
\* with type import, the record's tenant and derived id and the caller's id;
\* audit documents appear in no other step; and AuditPaired holds throughout.
AuditPairing ==
    /\ []AuditPaired
    /\ [][ /\ \A p \in Calls : CommitStep(p) =>
                 LET k == Len(items[p]) IN
                 /\ result'[p] = Ok(k)
                 /\ Total(audit', DOMAIN audit') = Total(audit, DOMAIN audit) + k
                 /\ DOMAIN audit \subseteq DOMAIN audit'
                 /\ \A i \in 1..k :
                       LET doc == ItemAudit(items[p][i], caller[p][1]) IN
                       Count(audit', doc) = Count(audit, doc)
                          + Cardinality({j \in 1..k : ItemAudit(items[p][j], caller[p][1]) = doc})
                 /\ \A i \in 1..k : ItemPath(items[p][i]) \in DOMAIN prospects'
           /\ audit' # audit => \E p \in Calls : CommitStep(p)
         ]_vars

\* C6 witness: a call has committed two records of two prospects and the
\* audit collection holds its two documents.
AuditOfTwoRecords ==
    \E p \in Calls :
        /\ pc[p] = "done" /\ result[p] = Ok(2)
        /\ Cardinality(DOMAIN prospects) = 2
        /\ Total(audit, DOMAIN audit) = 2
        /\ \A a \in DOMAIN audit : a.by = CallerOf(p)

\* the claim's normal form of a domain: no whitespace, lower case
NormalDomain(d) == ToLowerCase(RemoveWhitespace(d))
PairOf(doc) == <<NormalDomain(doc.domain), doc.product>>
PathsOf(t) == {path \in DOMAIN prospects : path[1] = t}
TenantsStored == {path[1] : path \in DOMAIN prospects}

\* C7, in every state: a prospect is stored under its tenant and under the id
\* normalize(domain)_product, no two prospects of a tenant have the same
\* (normalized domain, product) pair, and a tenant holds as many prospects as
\* distinct pairs were committed for it (one per id the audit trail names).
IdentityUnique ==
    /\ \A path \in DOMAIN prospects :
          /\ prospects[path].tenantId = path[1]
          /\ path[2] = NormalDomain(prospects[path].domain) \o <<"_", prospects[path].product>>
    /\ \A t \in TenantsStored :
          /\ Cardinality(PathsOf(t)) = Cardinality({PairOf(prospects[path]) : path \in PathsOf(t)})
          /\ Cardinality(PathsOf(t))
               = Cardinality({a.prospectId : a \in {x \in DOMAIN audit : x.tenantId = t}})

\* the fields a record can supply as they are stored
PlainFields == {"institutionName", "score", "stage", "status", "priority", "nextStep", "region"}

\* the last record of call p's body that goes to a path
LastItemFor(p, path) ==
    LET at == {i \in 1..Len(items[p]) : ItemPath(items[p][i]) = path}
    IN  items[p][CHOOSE i \in at : \A j \in at : j <= i]

\* C7: IdentityUnique holds throughout, and when an import call commits, each
\* prospect it wrote, new or already stored, carries the values of the last
\* record of the call that names it: its product case-folded, its domain in
\* normal form equal, and every plain field the record supplies.
ImportIdentityIdempotent ==
    /\ []IdentityUnique
    /\ [][ \A p \in Calls : CommitStep(p) =>
              \A path \in {ItemPath(items[p][i]) : i \in 1..Len(items[p])} :
                 LET raw == LastItemFor(p, path)
                     doc == prospects'[path]
                 IN  /\ doc.product = LowerWord(raw.product[1])
                     /\ NormalDomain(doc.domain) = NormalDomain(raw.domain[1])
                     /\ \A f \in PlainFields : IsSome(raw[f]) => doc[f] = raw[f][1]
         ]_vars

\* C7 witness: the same prospect was imported twice, written differently, and
\* its tenant holds one prospect with the values of the later import.
ImportedTwiceStoredOnce ==
    \E path \in DOMAIN prospects :
        /\ AuditsOf(path) >= 2
        /\ Cardinality(PathsOf(path[1])) = 1
        /\ \A p \in Calls : pc[p] = "done" /\ result[p] = Ok(1)
        /\ prospects[path].score = 82

\* optional fields of a record, under the names they are stored with (the
\* owner, which the pipeline assigns when the record has none, is left aside)
OptionalFields ==
    {"score", "stage", "status", "priority", "lastContactedAt", "nextStep", "region"}

\* C8: when an import call commits, every optional field of an already stored
\* prospect that none of the call's records for that prospect supplies keeps
\* its stored value.
MergeKeepsOmittedFields ==
    [][ \A p \in Calls : CommitStep(p) =>
           \A path \in {ItemPath(items[p][i]) : i \in 1..Len(items[p])} \cap DOMAIN prospects :
              \A f \in OptionalFields :
                 (\A i \in 1..Len(items[p]) :
                     ItemPath(items[p][i]) = path => ~IsSome(items[p][i][f]))
                 => prospects'[path][f] = prospects[path][f]
      ]_vars

\* C9: every stored prospect has an integer score from 0 to 100.
ScoreInRange ==
    \A path \in DOMAIN prospects :
        prospects[path].score \in Int /\ prospects[path].score \in 0..100

\* C9 witness: a prospect imported with score 3 and a contact date has been
\* decayed to 1 and then, floored, to 0 by two committed recalculate runs.
ScoreDecayedToFloor ==
    /\ used.recalcs = 2
    /\ \E path \in DOMAIN prospects :
          /\ prospects[path].score = 0
          /\ prospects[path].lastContactedAt = Some(1)

\* the score and stage the decay rule of the specification gives a prospect
RuleScore(p, nowTicks) ==
    IF IsSome(p.lastContactedAt) /\ (nowTicks - p.lastContactedAt[1]) \div DayTicks >= 3
    THEN (IF p.score - 2 >= 0 THEN p.score - 2 ELSE 0)
    ELSE p.score
RuleStage(score) ==
    IF score >= 80 THEN "P1" ELSE IF score >= 60 THEN "nurture" ELSE "research"

\* C10: a recalculate run that commits writes, for every prospect it read,
\* the score decayed by 2 (not below 0) if lastContactedAt is set and at least
\* 3 whole days old, the score unchanged otherwise, and the stage that the
\* thresholds 80 and 60 give that score.
RecalcFollowsDecayRule ==
    [][ RecalcCommitStep =>
           \A path \in DOMAIN rsnap :
              /\ prospects'[path].score = RuleScore(rsnap[path], now)
              /\ prospects'[path].stage = RuleStage(RuleScore(rsnap[path], now))
      ]_vars

\* C11: right after a recalculate run commits, every stored prospect of every
\* tenant has a stage among P1, nurture and research, the one the thresholds
\* 80 and 60 give its stored score, whatever its stage was before.
StageNotSticky ==
    [][ RecalcCommitStep =>
           \A path \in DOMAIN prospects' :
              /\ prospects'[path].stage \in {"P1", "nurture", "research"}
              /\ prospects'[path].stage = RuleStage(prospects'[path].score)
      ]_vars

\* the scope of call p's record and of a cursor document: tenant and region-or-ANY
ScopeOfCall(p) == <<cur[p][1].tenantId, RegionOrAny(cur[p][1].region)>>
ScopeOfCursor(doc) == <<doc.tenantId, doc.region>>
\* the step in which call p's pickOwner writes the cursor
AssignStep(p) == pc[p] = "write" /\ pc'[p] # "write"

\* C12: an assignment for a scope leaves the cursor (lastIndex and count) of
\* every other scope as it was, and cursors change in no other step.
ScopeIsolation ==
    [][ /\ \A p \in Calls : AssignStep(p) =>
              \A k \in DOMAIN routing :
                 ScopeOfCursor(routing[k]) # ScopeOfCall(p)
                 => /\ k \in DOMAIN routing'
                    /\ routing'[k].lastIndex = routing[k].lastIndex
                    /\ routing'[k].count = routing[k].count
                    /\ ScopeOfCursor(routing'[k]) = ScopeOfCursor(routing[k])
        /\ routing' # routing => \E p \in Calls : AssignStep(p)
      ]_vars

\* what call p holds outside the storage: nothing read, nothing staged
LocalsUntouched(p) ==
    /\ items[p] = <<>> /\ batch[p] = <<>> /\ count[p] = 0
    /\ cur[p] = None /\ pool[p] = <<>> /\ snap[p] = None

\* C13: an import call whose caller identity is missing or empty throws
\* "Auth required" in its first step; that step changes no collection (roles,
\* cursors, prospects, contacts, signals, audit), and the call has then and
\* ever after read no pool and no cursor and staged nothing.
AuthFailureTouchesNothing ==
    /\ [](\A p \in Calls :
             (pc[p] # "idle" /\ ~StrTruthy(caller[p]))
             => (FailedWith(p, "Auth required") /\ LocalsUntouched(p)))
    /\ [][ \A p \in Calls :
              (pc[p] = "idle" /\ pc'[p] # "idle" /\ ~StrTruthy(caller'[p]))
              => UNCHANGED <<roles, routing, storeVars, assignLog>>
         ]_vars

\* C13 witness: a call with an empty caller id and a call with none have both
\* been refused.
BothRefused ==
    \E p, q \in Calls :
        /\ caller[p] = Some("") /\ FailedWith(p, "Auth required")
        /\ caller[q] = None /\ FailedWith(q, "Auth required")

\* the step in which call p's pickOwner finds the pool empty and returns null
EmptyPoolStep(p) == pc[p] = "pool" /\ pc'[p] = "loop"
\* the prospect documents call p has staged, in order
StagedProspects(b) == SelectSeq(b, LAMBDA w : w.op = "prospect")
LastStaged(b) == StagedProspects(b)[Len(StagedProspects(b))].data

\* C14: when the pool of a record's scope is empty, pickOwner returns without
\* creating or changing a cursor, the call goes on (it does not fail), and the
\* record is staged, and then committed, with ownerUid null and ownerName null.
EmptyPoolLeavesUnassigned ==
    [][ \A p \in Calls : EmptyPoolStep(p) =>
           /\ routing' = routing
           /\ result'[p] = None
           /\ Len(StagedProspects(batch'[p])) = Len(StagedProspects(batch[p])) + 1
           /\ LastStaged(batch'[p]).ownerUid = None
           /\ LastStaged(batch'[p]).ownerName = None
      ]_vars

\* the entries the eligibility rule admits for a tenant and a region: the role
\* is sdr or admin, and the entry restricts no region (it has no region list
\* or an empty one), or lists the region, or lists ALL
RuleEligible(doc, tenantId, region) ==
    /\ IsSome(doc.tenants)
    /\ tenantId \in DOMAIN doc.tenants[1]
    /\ doc.tenants[1][tenantId] \in {"sdr", "admin"}
    /\ \/ ~IsSome(doc.regions)
       \/ doc.regions[1] = {}
       \/ region \in doc.regions[1]
       \/ "ALL" \in doc.regions[1]
RulePool(tenantId, region) ==
    {u \in Uids : IsSome(roles[u]) /\ RuleEligible(roles[u][1], tenantId, region)}

\* the step in which call p's pickOwner reads and filters the roles
ResolveStep(p) == pc[p] = "pool" /\ pc'[p] # "pool"
ResolvedUids(p) ==
    IF pc'[p] = "cursor" THEN {pool'[p][i].uid : i \in 1..Len(pool'[p])} ELSE {}

\* C15: the pool pickOwner resolves for a record is exactly the set of role
\* entries RuleEligible admits for the record's tenant and region, whatever
\* the shape of the entries.
PoolIsEligibleEntries ==
    [][ \A p \in Calls : ResolveStep(p) =>
           ResolvedUids(p) = RulePool(cur[p][1].tenantId, cur[p][1].region)
      ]_vars

\* the id the pipeline has derived for the i-th record call p has taken
DerivedId(p, i) == StagedProspects(batch[p])[i].path[2]
\* two records name the same prospect: domains equal once whitespace is removed
\* and letters are lower-cased, products equal once case-folded
SameIdentity(a, b) ==
    /\ NormalDomain(a.domain[1]) = NormalDomain(b.domain[1])
    /\ LowerWord(a.product[1]) = LowerWord(b.product[1])

\* C16: two records that name the same prospect get the same id, whichever
\* calls they are in; the id is the normalized domain, "_", the folded
\* product; and normalizing the normalized domain again gives the same id.
NormalizationInvariant ==
    \A p, q \in Calls :
        (pc[p] = "loop" /\ pc[q] = "loop") =>
        \A i \in 1..Len(items[p]) : \A j \in 1..Len(items[q]) :
            LET a == items[p][i]
                b == items[q][j]
                nd == NormalDomain(a.domain[1])
                w == LowerWord(a.product[1])
            IN  /\ SameIdentity(a, b) => DerivedId(p, i) = DerivedId(q, j)
                /\ DerivedId(p, i) = nd \o <<"_", w>>
                /\ normalizeId(nd, w) = DerivedId(p, i)

\* C16 witness: two calls have each taken a record of the same prospect, one
\* with whitespace inside its domain, the other spelled differently and with
\* the product capitalised, and both derived the same id.
TwoSpellingsOneId ==
    \E p, q \in Calls :
        /\ p # q /\ pc[p] = "loop" /\ pc[q] = "loop"
        /\ Len(items[p]) = 1 /\ Len(items[q]) = 1
        /\ items[p][1].domain # items[q][1].domain
        /\ items[p][1].product # items[q][1].product
        /\ LET d == items[p][1].domain[1] IN
           \E k \in 2..(Len(d) - 1) : IsSpace(d[k]) /\ ~IsSpace(d[1]) /\ ~IsSpace(d[Len(d)])
        /\ DerivedId(p, 1) = DerivedId(q, 1)

\* the cursor id of the record call p is handling
KeyOfCall(p) == rrId(cur[p][1].tenantId, cur[p][1].region)
PoolUidsOfCall(p) == {pool[p][i].uid : i \in 1..Len(pool[p])}

\* C17: the lastIndex an assignment writes is an index into the pool that same
\* call resolved (0 <= lastIndex < pool size), the owner it returns and stages
\* is the pool member at that index, and the scope's count grows by exactly 1.
CursorIndexValid ==
    [][ \A p \in Calls : AssignStep(p) =>
           LET key == KeyOfCall(p)
               idx == routing'[key].lastIndex
               log == assignLog'[key]
           IN  /\ Len(pool[p]) > 0
               /\ idx \in 0..(Len(pool[p]) - 1)
               /\ log[Len(log)] = pool[p][idx + 1].uid
               /\ log[Len(log)] \in PoolUidsOfCall(p)
               /\ LastStaged(batch'[p]).ownerUid = Some(pool[p][idx + 1].uid)
               /\ routing'[key].count = Count([k \in DOMAIN routing |-> routing[k].count], key) + 1
      ]_vars

\* C17 witness: a scope was assigned twice, its pool shrank from two members
\* to one in between, and the second assignment wrapped to index 0.
AssignedAfterPoolShrank ==
    \E k \in DOMAIN routing :
        /\ Len(k) = 3
        /\ Len(PoolOfKey(k)) = 1
        /\ used.edits >= 1
        /\ assignLog[k] = <<"u1", "u1">>
        /\ routing[k].lastIndex = 0 /\ routing[k].count = 2

\* the step in which call p takes a record the schema accepts, and that record
TakeStep(p) == pc[p] = "loop" /\ Len(items'[p]) = Len(items[p]) + 1
Taken(p) == items'[p][Len(items'[p])]
\* assignments made so far, over all scopes
Assignments(log) == Total([k \in DOMAIN log |-> Len(log[k])], DOMAIN log)
\* the owner staged last for a path by call p
StagedOwner(p, path) ==
    LET sp == StagedProspects(batch[p])
        at == {i \in 1..Len(sp) : sp[i].path = path}
    IN  sp[CHOOSE i \in at : \A j \in at : j <= i].data.ownerUid

\* C18: a record that brings an owner id is staged with that owner at once,
\* pickOwner is not entered and no cursor changes; a record without one enters
\* pickOwner, and with a non-empty pool one assignment is made for it (one
\* cursor write, one member returned) and that member is staged as its owner;
\* assignments are made in no other step; and a commit stores each prospect
\* with the owner staged for it.
OwnerAssignedOnlyWhenAbsent ==
    [][ /\ \A p \in Calls : TakeStep(p) =>
              IF StrTruthy(Taken(p).ownerUid)
              THEN /\ pc'[p] = "loop"
                   /\ routing' = routing /\ assignLog' = assignLog
                   /\ LastStaged(batch'[p]).ownerUid = Taken(p).ownerUid
              ELSE /\ pc'[p] = "pool"
                   /\ batch'[p] = batch[p]
                   /\ routing' = routing /\ assignLog' = assignLog
        /\ \A p \in Calls : AssignStep(p) =>
              LET log == assignLog'[KeyOfCall(p)] IN
              /\ ~StrTruthy(cur[p][1].ownerUid)
              /\ Assignments(assignLog') = Assignments(assignLog) + 1
              /\ Len(StagedProspects(batch'[p])) = Len(StagedProspects(batch[p])) + 1
              /\ LastStaged(batch'[p]).ownerUid = Some(log[Len(log)])
              /\ pc'[p] = "loop"
        /\ assignLog' # assignLog => \E p \in Calls : AssignStep(p)
        /\ \A p \in Calls : CommitStep(p) =>
              \A path \in {ItemPath(items[p][i]) : i \in 1..Len(items[p])} :
                 prospects'[path].ownerUid = StagedOwner(p, path)
      ]_vars

\* C18 witness: one call has committed a record that brought owner u9 and a
\* record without owner; the first is stored with u9, the second with the
\* pool member of the one assignment made.
OwnedKeptAndOwnerlessAssigned ==
    \E p \in Calls :
        /\ pc[p] = "done" /\ result[p] = Ok(2)
        /\ Assignments(assignLog) = 1
        /\ \E a, b \in DOMAIN prospects :
              /\ prospects[a].ownerUid = Some("u9")
              /\ \E k \in DOMAIN assignLog :
                    /\ prospects[b].ownerUid = Some(assignLog[k][1])
                    /\ routing[k].count = 1

\* C19: the score and stage a recalculate run commits for a prospect it read
\* are those the decay and the thresholds give the prospect as stored when
\* the run commits, so an import committed since the run's read is not
\* overwritten from the value read before it.
RecalcSeesCommittedImports ==
    [][ RecalcCommitStep =>
           \A path \in DOMAIN rsnap :
              /\ prospects'[path].score = Rescored(prospects[path], now).score
              /\ prospects'[path].stage = Rescored(prospects[path], now).stage
      ]_vars

\* whole days from a stored date to the clock
DaysSince(last, nowTicks) == (nowTicks - last[1]) \div DayTicks

\* C20: a recalculate run never raises the score of a prospect; and each run
\* that commits takes a prospect it read, not imported again since, whose
\* lastContactedAt is set and at least 3 days old, strictly nearer to score 0
\* and, once its score is 0, leaves it at score 0 and stage research (so that
\* runs repeated by the schedule bring it there and keep it there).
DecayMonotoneAndConverges ==
    [][ RecalcCommitStep =>
           \A path \in DOMAIN prospects :
              /\ prospects'[path].score <= prospects[path].score
              /\ (/\ path \in DOMAIN rsnap
                  /\ rsnap[path] = prospects[path]
                  /\ IsSome(prospects[path].lastContactedAt)
                  /\ DaysSince(prospects[path].lastContactedAt, now) >= 3)
                 => IF prospects[path].score > 0
                    THEN prospects'[path].score < prospects[path].score
                    ELSE /\ prospects'[path].score = 0
                         /\ prospects'[path].stage = "research"
      ]_vars

====
